---- MODULE Spec2Model ----
(***************************************************************************)
(* NaN/Inf guard of paddle/fluid/framework/details/nan_inf_utils_detail.cu *)
(*                                                                         *)
(* Two specifications share the module:                                    *)
(*   SpecKernel  the device side: CheckNanInfKernel (boolean scan) and     *)
(*               CountNanInfNumKernel with its host driver                 *)
(*               CudaTensorCheckNanInf, thread by thread, on one tensor;   *)
(*   SpecHost    the host side of tensor_check: the call_once gate,        *)
(*               InitMultiGPUOpVarMap and the per-device label cache of    *)
(*               TensorCheckerVisitor::apply under concurrent host threads.*)
(***************************************************************************)
EXTENDS Integers, Sequences, FiniteSets, TLC

(***************************************************************************)
(* Bounds.  The launch geometry of the source (1024 threads per block, at  *)
(* most 128 blocks) is scaled down so that every interleaving of the       *)
(* device threads can be enumerated; the formula                           *)
(* min(MaxBlocks, ceil(len / threads)) is the source's.                    *)
(***************************************************************************)
threads == 2
MaxBlocks == 2
MaxLen == 5
MaxBad == 2
NumThreads == 2
MaxDevices == 2
NumLabels == 2
MaxCalls == 2

Min(a, b) == IF a < b THEN a ELSE b

(***************************************************************************)
(* Element values.  A finite element carries its number, NaN and the two   *)
(* infinities are separate values.                                         *)
(***************************************************************************)
Fin(x) == [k |-> "fin", v |-> x]
NaN == [k |-> "nan", v |-> 0]
PInf == [k |-> "inf", v |-> 1]
NInf == [k |-> "inf", v |-> -1]

isnan(x) == x.k = "nan"
isinf(x) == x.k = "inf"

\* IEEE subtraction and addition on the values above (value[i] - value[i]
\* and sum += ... of CheckNanInfKernel).
FNeg(a) == IF a.k = "inf" THEN [k |-> "inf", v |-> 0 - a.v] ELSE
           IF a.k = "fin" THEN Fin(0 - a.v) ELSE a

FAdd(a, b) ==
    IF isnan(a) \/ isnan(b) THEN NaN
    ELSE IF isinf(a) /\ isinf(b) THEN (IF a.v = b.v THEN a ELSE NaN)
    ELSE IF isinf(a) THEN a
    ELSE IF isinf(b) THEN b
    ELSE Fin(a.v + b.v)

FSub(a, b) == FAdd(a, FNeg(b))

(***************************************************************************)
(* Tensors: element type and data.  An INT64 tensor holds integers only.   *)
(* FP16 stands for the element types CudaTensorCheckNanInf has no branch   *)
(* for.  The finite element at flat index i holds i + 1; an infinite       *)
(* element is +inf at an even index and -inf at an odd one, so both signs  *)
(* occur.  A tensor holds at most MaxBad non-finite elements, anywhere.    *)
(***************************************************************************)
FloatTypes == {"FP32", "FP64"}
CountTypes == {"FP32", "INT64", "FP64"}
VarTypes == {"FP32", "FP64", "INT64", "FP16"}

BadMaps == UNION {[P -> {"nan", "inf"}] :
                     P \in {Q \in SUBSET (0 .. MaxLen - 1) : Cardinality(Q) <= MaxBad}}

BadValue(kind, i) == IF kind = "nan" THEN NaN ELSE IF i % 2 = 0 THEN PInf ELSE NInf

MkData(n, bad) == [j \in 1 .. n |-> IF (j - 1) \in DOMAIN bad
                                    THEN BadValue(bad[j - 1], j - 1)
                                    ELSE Fin(j)]

BadMapsBelow(n) == {m \in BadMaps : \A i \in DOMAIN m : i < n}

Tensors ==
    UNION {{[type |-> ty, data |-> MkData(n, bad)] :
                ty \in VarTypes \ {"INT64"}, bad \in BadMapsBelow(n)} : n \in 0 .. MaxLen}
    \cup {[type |-> "INT64", data |-> MkData(n, << >>)] : n \in 0 .. MaxLen}

VARIABLES
    tensor,        \* the tensor under check: [type, data]
    scanres,       \* the boolean scan on this tensor: none, running, clean, reported
    cpc,           \* CudaTensorCheckNanInf: position of the host thread
    cret,          \* CudaTensorCheckNanInf: what the call returned
    num_ptr,       \* the two device counters <<nan_num, inf_num>>
    nan_inf_num,   \* the host copy of the two counters
    stream,        \* dev_ctx->stream(): the operations enqueued and not yet completed
    kernel,        \* the kernel the device is executing, or "none"
    tpc,           \* position of every device thread <<blockIdx.x, threadIdx.x>>
    block_nan,     \* __shared__ block_nan of every block
    block_inf,     \* __shared__ block_inf of every block
    has_nan_inf,   \* __shared__ has_nan_inf of every block
    issued,        \* what CudaTensorCheckNanInf has issued so far, in order
    nan_count,     \* __shared__ nan_count of PrintNanInfKernel, per block
    inf_count,     \* __shared__ inf_count of PrintNanInfKernel, per block
    num_count,     \* __shared__ num_count of PrintNanInfKernel, per block
    idx,           \* the loop index i of PrintNanInfKernel, per device thread
    printed,       \* per block: the flat indices of the element lines printed
    tally,         \* per block: the <<nan, inf, num>> line printed, or << >>
    dev_count,     \* what platform::GetCUDADeviceCount() returns: no device, or MaxDevices
    flag,          \* init_multi_gpu_op_var_map_flag: idle, running, done
    multi_op_var2gpu_str,        \* per device: label -> device buffer
    multi_op_var2gpu_str_mutex,  \* per device: 0, or the thread holding the mutex
    hpc,           \* position of every host thread in tensor_check
    dev_id,        \* the device of the tensor of the thread's call
    op_var,        \* the label of the thread's call
    gpu_str_ptr,   \* the thread's gpu_str_ptr (0 is NULL)
    result,        \* how the thread's last call ended
    dstream,       \* per device: what was enqueued on dev_ctx->stream(), in order
    next_alloc,    \* the next device buffer memory::Alloc hands out
    ncalls,        \* calls of tensor_check so far
    init_runs,     \* entries into InitMultiGPUOpVarMap so far
    init_done,     \* completions of InitMultiGPUOpVarMap so far
    log            \* per device and label: the cache events, in order

\* the state of the in-kernel reporter
rvars == <<nan_count, inf_count, num_count, idx, printed, tally>>

kvars == <<tensor, scanres, cpc, cret, num_ptr, nan_inf_num, stream, kernel,
           tpc, block_nan, block_inf, has_nan_inf, issued, rvars>>

hvars == <<dev_count, flag, multi_op_var2gpu_str, multi_op_var2gpu_str_mutex,
           hpc, dev_id, op_var, gpu_str_ptr, result, dstream, next_alloc,
           ncalls, init_runs, init_done, log>>

vars == <<kvars, hvars>>

BlockIds == 0 .. MaxBlocks - 1
ThreadIds == 0 .. threads - 1
Tids == BlockIds \X ThreadIds

numel == Len(tensor.data)
value(i) == tensor.data[i + 1]

\* Uninitialised device memory holds whatever was there.
GarbageU == {0, 7}

\* std::min(128, (numel + threads - 1) / threads), lines 168-170 and 235-236
GridBlocks(len) == Min(MaxBlocks, (len + threads - 1) \div threads)

\* The threads of block b.
BlockThreads(b) == {b} \X ThreadIds

AllAt(b, p) == \A t \in BlockThreads(b) : tpc[t] = p

Active(b) == b < GridBlocks(numel)

(***************************************************************************)
(* The device: it takes the operations of the stream in issue order.       *)
(***************************************************************************)
\* cudaMemsetAsync(num_ptr, 0, ...) executes
DevMemset ==
    /\ kernel = "none" /\ stream # << >> /\ Head(stream) = "memset"
    /\ num_ptr' = <<0, 0>>
    /\ stream' = Tail(stream)
    /\ UNCHANGED <<rvars, tensor, scanres, cpc, cret, nan_inf_num, kernel, tpc,
                   block_nan, block_inf, has_nan_inf, issued>>

\* The threads of a grid at launch: the blocks of the grid exist, the others
\* do not.  A launch of zero blocks (numel = 0) runs no thread.
GridStart == [t \in Tids |-> IF Active(t[1])
                             THEN (IF t[2] = 0 THEN "init" ELSE "sync1")
                             ELSE "off"]

\* CountNanInfNumKernel starts: the __shared__ accumulators of its blocks are
\* uninitialised.
CountKernelBegin ==
    /\ kernel = "none" /\ stream # << >> /\ Head(stream) = "count"
    /\ kernel' = "count"
    /\ tpc' = GridStart
    /\ \E gn \in GarbageU, gi \in GarbageU :
          /\ block_nan' = [b \in BlockIds |-> IF Active(b) THEN gn ELSE 0]
          /\ block_inf' = [b \in BlockIds |-> IF Active(b) THEN gi ELSE 0]
    /\ UNCHANGED <<rvars, tensor, scanres, cpc, cret, num_ptr, nan_inf_num, stream,
                   has_nan_inf, issued>>

\* CheckNanInfKernel starts: the __shared__ flag of its blocks is
\* uninitialised.
ScanKernelBegin ==
    /\ kernel = "none" /\ stream # << >> /\ Head(stream) = "scan"
    /\ kernel' = "scan"
    /\ tpc' = GridStart
    /\ \E g \in BOOLEAN :
          has_nan_inf' = [b \in BlockIds |-> IF Active(b) THEN g ELSE FALSE]
    /\ UNCHANGED <<rvars, tensor, scanres, cpc, cret, num_ptr, nan_inf_num, stream,
                   block_nan, block_inf, issued>>

\* cudaMemcpyAsync(&nan_inf_num[0], num_ptr, ..., cudaMemcpyDeviceToHost) executes
DevCopyBack ==
    /\ kernel = "none" /\ stream # << >> /\ Head(stream) = "d2h"
    /\ nan_inf_num' = num_ptr
    /\ stream' = Tail(stream)
    /\ UNCHANGED <<rvars, tensor, scanres, cpc, cret, num_ptr, kernel, tpc,
                   block_nan, block_inf, has_nan_inf, issued>>

(***************************************************************************)
(* CountNanInfNumKernel, lines 187-219.  A thread whose threadIdx.x is not *)
(* 0 skips the two `if (threadIdx.x == 0)` bodies; it starts at the first  *)
(* barrier and ends at the second.                                         *)
(***************************************************************************)
\* Faulty variant of CountInit: the accumulators are left as the block found
\* them.
CountInitNoClear(b) ==
    /\ kernel = "count" /\ tpc[<<b, 0>>] = "init"
    /\ tpc' = [tpc EXCEPT ![<<b, 0>>] = "sync1"]
    /\ UNCHANGED <<rvars, tensor, scanres, cpc, cret, num_ptr, nan_inf_num, stream,
                   kernel, block_nan, block_inf, has_nan_inf, issued>>

\* lines 194-197: thread 0 zeroes the block's accumulators
CountInit(b) ==
    /\ kernel = "count" /\ tpc[<<b, 0>>] = "init"
    /\ block_nan' = [block_nan EXCEPT ![b] = 0]
    /\ block_inf' = [block_inf EXCEPT ![b] = 0]
    /\ tpc' = [tpc EXCEPT ![<<b, 0>>] = "sync1"]
    /\ UNCHANGED <<rvars, tensor, scanres, cpc, cret, num_ptr, nan_inf_num, stream,
                   kernel, has_nan_inf, issued>>

\* line 198: __syncthreads()
CountSync1(b) ==
    /\ kernel = "count" /\ AllAt(b, "sync1")
    /\ tpc' = [t \in Tids |-> IF t[1] = b THEN "classify" ELSE tpc[t]]
    /\ UNCHANGED <<rvars, tensor, scanres, cpc, cret, num_ptr, nan_inf_num, stream,
                   kernel, block_nan, block_inf, has_nan_inf, issued>>

\* line 193: the one index a thread looks at
CountIndex(b, x) == b * threads + x

\* lines 200-212: classify val[i] with atomicAdd on the block's accumulators.
\* The counters are unsigned int; a launch adds at most threads * MaxBlocks to
\* them in all, far from wrapping.
CountClassify(b, x) ==
    /\ kernel = "count" /\ tpc[<<b, x>>] = "classify"
    /\ LET i == CountIndex(b, x) IN
          IF i < numel /\ isnan(value(i))
          THEN /\ block_nan' = [block_nan EXCEPT ![b] = @ + 1]
               /\ UNCHANGED block_inf
          ELSE IF i < numel /\ isinf(value(i))
          THEN /\ block_inf' = [block_inf EXCEPT ![b] = @ + 1]
               /\ UNCHANGED block_nan
          ELSE UNCHANGED <<block_nan, block_inf>>
    /\ tpc' = [tpc EXCEPT ![<<b, x>>] = "sync2"]
    /\ UNCHANGED <<rvars, tensor, scanres, cpc, cret, num_ptr, nan_inf_num, stream,
                   kernel, has_nan_inf, issued>>

\* Faulty variant of Merges: the threadIdx.x == 0 guard of line 215 dropped.
MergesEveryThread(x) == x \in ThreadIds

\* line 215: which threads of a block merge the block's counts
Merges(x) == x = 0

\* line 213: __syncthreads()
CountSync2(b) ==
    /\ kernel = "count" /\ AllAt(b, "sync2")
    /\ tpc' = [t \in Tids |-> IF t[1] = b
                              THEN (IF Merges(t[2]) THEN "merge_nan" ELSE "done")
                              ELSE tpc[t]]
    /\ UNCHANGED <<rvars, tensor, scanres, cpc, cret, num_ptr, nan_inf_num, stream,
                   kernel, block_nan, block_inf, has_nan_inf, issued>>

\* line 216: atomicAdd(nan_num, block_nan)
CountMergeNan(b, x) ==
    /\ kernel = "count" /\ tpc[<<b, x>>] = "merge_nan"
    /\ num_ptr' = [num_ptr EXCEPT ![1] = @ + block_nan[b]]
    /\ tpc' = [tpc EXCEPT ![<<b, x>>] = "merge_inf"]
    /\ UNCHANGED <<rvars, tensor, scanres, cpc, cret, nan_inf_num, stream, kernel,
                   block_nan, block_inf, has_nan_inf, issued>>

\* line 217: atomicAdd(inf_num, block_inf)
CountMergeInf(b, x) ==
    /\ kernel = "count" /\ tpc[<<b, x>>] = "merge_inf"
    /\ num_ptr' = [num_ptr EXCEPT ![2] = @ + block_inf[b]]
    /\ tpc' = [tpc EXCEPT ![<<b, x>>] = "done"]
    /\ UNCHANGED <<rvars, tensor, scanres, cpc, cret, nan_inf_num, stream, kernel,
                   block_nan, block_inf, has_nan_inf, issued>>

\* the count kernel has run to completion: the stream moves on
CountKernelEnd ==
    /\ kernel = "count"
    /\ \A t \in Tids : tpc[t] \in {"off", "done"}
    /\ kernel' = "none"
    /\ stream' = Tail(stream)
    /\ tpc' = [t \in Tids |-> "off"]
    /\ UNCHANGED <<rvars, tensor, scanres, cpc, cret, num_ptr, nan_inf_num,
                   block_nan, block_inf, has_nan_inf, issued>>

(***************************************************************************)
(* CheckNanInfKernel, lines 93-115.                                        *)
(***************************************************************************)
\* Faulty variant of ScanInit: the flag is left as the block found it.
ScanInitNoClear(b) ==
    /\ kernel = "scan" /\ tpc[<<b, 0>>] = "init"
    /\ tpc' = [tpc EXCEPT ![<<b, 0>>] = "sync1"]
    /\ UNCHANGED <<rvars, tensor, scanres, cpc, cret, num_ptr, nan_inf_num, stream,
                   kernel, block_nan, block_inf, has_nan_inf, issued>>

\* lines 97-98: thread 0 clears the block's flag
ScanInit(b) ==
    /\ kernel = "scan" /\ tpc[<<b, 0>>] = "init"
    /\ has_nan_inf' = [has_nan_inf EXCEPT ![b] = FALSE]
    /\ tpc' = [tpc EXCEPT ![<<b, 0>>] = "sync1"]
    /\ UNCHANGED <<rvars, tensor, scanres, cpc, cret, num_ptr, nan_inf_num, stream,
                   kernel, block_nan, block_inf, issued>>

\* line 99: __syncthreads()
ScanSync1(b) ==
    /\ kernel = "scan" /\ AllAt(b, "sync1")
    /\ tpc' = [t \in Tids |-> IF t[1] = b THEN "loop" ELSE tpc[t]]
    /\ UNCHANGED <<rvars, tensor, scanres, cpc, cret, num_ptr, nan_inf_num, stream,
                   kernel, block_nan, block_inf, has_nan_inf, issued>>

\* line 104: i += blockDim.x * gridDim.x
ScanStride == threads * GridBlocks(numel)

\* lines 104-106: the grid-stride loop from index i with the running sum acc
RECURSIVE ScanLoop(_, _)
ScanLoop(i, acc) ==
    IF i < numel
    THEN ScanLoop(i + ScanStride, FAdd(acc, FSub(value(i), value(i))))
    ELSE acc

\* Faulty variant of ScanSum: one element per thread, no stride (as the count kernel).
ScanSumNoStride(tid) ==
    IF tid < numel THEN FAdd(Fin(0), FSub(value(tid), value(tid))) ELSE Fin(0)

\* lines 101-106: the sum of thread tid, from T sum = 0.0
ScanSum(tid) == ScanLoop(tid, Fin(0))

\* lines 101-108: the loop is local to the thread; its one shared effect is
\* the write of the flag
ScanAccumulate(b, x) ==
    /\ kernel = "scan" /\ tpc[<<b, x>>] = "loop"
    /\ LET sum == ScanSum(x + b * threads) IN
          IF isnan(sum) \/ isinf(sum)
          THEN has_nan_inf' = [has_nan_inf EXCEPT ![b] = TRUE]
          ELSE UNCHANGED has_nan_inf
    /\ tpc' = [tpc EXCEPT ![<<b, x>>] = "sync2"]
    /\ UNCHANGED <<rvars, tensor, scanres, cpc, cret, num_ptr, nan_inf_num, stream,
                   kernel, block_nan, block_inf, issued>>

\* Faulty variant of ScanSync2: no barrier, a thread goes on by itself.
ScanSync2NoBarrier(b) ==
    /\ kernel = "scan"
    /\ \E x \in ThreadIds :
          /\ tpc[<<b, x>>] = "sync2"
          /\ tpc' = [tpc EXCEPT ![<<b, x>>] = "check"]
    /\ UNCHANGED <<rvars, tensor, scanres, cpc, cret, num_ptr, nan_inf_num, stream,
                   kernel, block_nan, block_inf, has_nan_inf, issued>>

\* line 109: __syncthreads()
ScanSync2(b) ==
    /\ kernel = "scan" /\ AllAt(b, "sync2")
    /\ tpc' = [t \in Tids |-> IF t[1] = b THEN "check" ELSE tpc[t]]
    /\ UNCHANGED <<rvars, tensor, scanres, cpc, cret, num_ptr, nan_inf_num, stream,
                   kernel, block_nan, block_inf, has_nan_inf, issued>>

\* The positions of a thread inside PrintNanInfKernel.
ReporterPcs == {"PrintNanInfKernel", "rescan", "tally", "abort", "rdone"}

\* A block is in the report/abort path when one of its threads is.
Reporting(b) == \E t \in BlockThreads(b) : tpc[t] \in ReporterPcs

\* lines 112-114 and 62: return, or enter PrintNanInfKernel, where thread 0
\* first has the counters to zero
ScanCheck(b, x) ==
    /\ kernel = "scan" /\ tpc[<<b, x>>] = "check"
    /\ IF ~has_nan_inf[b]
       THEN /\ tpc' = [tpc EXCEPT ![<<b, x>>] = "returned"]
            /\ UNCHANGED idx
       ELSE /\ tpc' = [tpc EXCEPT ![<<b, x>>] =
                          IF x = 0 THEN "PrintNanInfKernel" ELSE "rescan"]
            /\ idx' = [idx EXCEPT ![<<b, x>>] = x + b * threads]
    /\ UNCHANGED <<nan_count, inf_count, num_count, printed, tally>>
    /\ UNCHANGED <<tensor, scanres, cpc, cret, num_ptr, nan_inf_num, stream,
                   kernel, block_nan, block_inf, has_nan_inf, issued>>

(***************************************************************************)
(* PrintNanInfKernel, lines 57-90, inlined into CheckNanInfKernel.  Lines  *)
(* 66 and 83 read `__syncthreads;` - the name of the function, not a call: *)
(* they are no barrier, and the threads of a block run through the         *)
(* reporter unsynchronized.                                                *)
(***************************************************************************)
\* line 121: int print_num = 3
print_num == 3

\* A thread of block b has taken a step inside the reporter.
ReporterStarted(b) ==
    \E x \in ThreadIds :
        \/ tpc[<<b, x>>] \in {"tally", "abort", "rdone"}
        \/ tpc[<<b, x>>] = "rescan" /\ (x = 0 \/ idx[<<b, x>>] # x + b * threads)

\* The blocks of this kernel share no memory, and the trap of line 88 halts
\* the kernel.  The reporter of one block, whichever, is followed in a run,
\* under every interleaving of its own threads, once every block has taken
\* its decision of line 112; the other reporting blocks are at the
\* reporter's entry when the kernel is halted.
ReporterTurn(b) ==
    /\ \A t \in Tids : tpc[t] \in {"off", "returned"} \cup ReporterPcs
    /\ \A c \in BlockIds \ {b} : ~ReporterStarted(c)

\* line 65: thread 0 zeroes the block's three counters
PrintInit(b) ==
    /\ kernel = "scan" /\ tpc[<<b, 0>>] = "PrintNanInfKernel"
    /\ ReporterTurn(b)
    /\ nan_count' = [nan_count EXCEPT ![b] = 0]
    /\ inf_count' = [inf_count EXCEPT ![b] = 0]
    /\ num_count' = [num_count EXCEPT ![b] = 0]
    /\ tpc' = [tpc EXCEPT ![<<b, 0>>] = "rescan"]
    /\ UNCHANGED <<idx, printed, tally>>
    /\ UNCHANGED <<tensor, scanres, cpc, cret, num_ptr, nan_inf_num, stream,
                   kernel, block_nan, block_inf, has_nan_inf, issued>>

\* line 78: the element line is printed
Prints(count) == count < print_num

\* lines 68-82: one iteration of the re-scan: atomicAdd on the counter of the
\* element's class, the element line when the old count is below print_num,
\* i += blockDim.x * gridDim.x; after its last iteration thread 0 goes on to
\* the tally line and the other threads are done.  The __shared__ counters
\* are uninitialised: a thread that steps before thread 0 has zeroed them
\* finds whatever was there.
PrintRescan(b, x) ==
    /\ kernel = "scan" /\ tpc[<<b, x>>] = "rescan"
    /\ ReporterTurn(b)
    /\ \E g \in IF ReporterStarted(b) THEN {0} ELSE GarbageU :
        LET i == idx[<<b, x>>]
            after == IF x = 0 THEN "tally" ELSE "rdone"
            nan_old == IF ReporterStarted(b) THEN nan_count[b] ELSE g
            inf_old == IF ReporterStarted(b) THEN inf_count[b] ELSE g
            num_old == IF ReporterStarted(b) THEN num_count[b] ELSE g
            class == IF i < numel THEN value(i).k ELSE "none"
            count == IF class = "nan" THEN nan_old
                     ELSE IF class = "inf" THEN inf_old ELSE num_old
        IN /\ nan_count' = [nan_count EXCEPT ![b] = nan_old + IF class = "nan" THEN 1 ELSE 0]
           /\ inf_count' = [inf_count EXCEPT ![b] = inf_old + IF class = "inf" THEN 1 ELSE 0]
           /\ num_count' = [num_count EXCEPT ![b] = num_old + IF class = "fin" THEN 1 ELSE 0]
           /\ printed' = IF i < numel /\ Prints(count)
                         THEN [printed EXCEPT ![b] = @ \cup {i}]
                         ELSE printed
           /\ IF i < numel /\ i + ScanStride < numel
              THEN /\ idx' = [idx EXCEPT ![<<b, x>>] = i + ScanStride]
                   /\ UNCHANGED tpc
              ELSE /\ idx' = [idx EXCEPT ![<<b, x>>] = 0]
                   /\ tpc' = [tpc EXCEPT ![<<b, x>>] = after]
    /\ UNCHANGED tally
    /\ UNCHANGED <<tensor, scanres, cpc, cret, num_ptr, nan_inf_num, stream,
                   kernel, block_nan, block_inf, has_nan_inf, issued>>

\* lines 85-89: thread 0 prints the block's tally line and PADDLE_ENFORCE(false)
\* traps
PrintTally(b) ==
    /\ kernel = "scan" /\ tpc[<<b, 0>>] = "tally"
    /\ ReporterTurn(b)
    /\ tally' = [tally EXCEPT ![b] = <<nan_count[b], inf_count[b], num_count[b]>>]
    /\ tpc' = [tpc EXCEPT ![<<b, 0>>] = "abort"]
    /\ UNCHANGED <<nan_count, inf_count, num_count, idx, printed>>
    /\ UNCHANGED <<tensor, scanres, cpc, cret, num_ptr, nan_inf_num, stream,
                   kernel, block_nan, block_inf, has_nan_inf, issued>>

\* the scan kernel is over: every thread has run to its end, or a thread has
\* trapped, which halts the kernel wherever the other threads are; a report
\* aborts the process.  The threads and the shared memory of the grid are
\* gone, what was printed stays.
ScanKernelEnd ==
    /\ kernel = "scan"
    /\ \/ \A t \in Tids : tpc[t] \in {"off", "returned", "rdone", "abort"}
       \/ \E t \in Tids : tpc[t] = "abort"
    /\ kernel' = "none"
    /\ stream' = Tail(stream)
    /\ scanres' = IF \E b \in BlockIds : Reporting(b) THEN "reported" ELSE "clean"
    /\ tpc' = [t \in Tids |-> "off"]
    /\ idx' = [t \in Tids |-> 0]
    /\ nan_count' = [b \in BlockIds |-> 0]
    /\ inf_count' = [b \in BlockIds |-> 0]
    /\ num_count' = [b \in BlockIds |-> 0]
    /\ has_nan_inf' = [b \in BlockIds |-> FALSE]
    /\ UNCHANGED <<printed, tally>>
    /\ UNCHANGED <<tensor, cpc, cret, num_ptr, nan_inf_num,
                   block_nan, block_inf, issued>>

(***************************************************************************)
(* The host.  The caller first may run the boolean scan (tensor_check,     *)
(* floating-point tensors only) and, once the stream has drained, the      *)
(* count check.                                                            *)
(***************************************************************************)
\* lines 167-172: launch CheckNanInfKernel on the stream
ScanLaunch ==
    /\ scanres = "none" /\ cpc = "idle"
    /\ tensor.type \in FloatTypes
    /\ stream' = Append(stream, "scan")
    /\ scanres' = "running"
    /\ UNCHANGED <<rvars, tensor, cpc, cret, num_ptr, nan_inf_num, kernel, tpc,
                   block_nan, block_inf, has_nan_inf, issued>>

\* PADDLE_ENFORCE_CUDA_SUCCESS and memory::Alloc: the call either goes on or
\* throws
Throw ==
    /\ cpc' = "done"
    /\ cret' = "throw"

\* line 228: memory::Alloc of the two counters
CountAlloc ==
    /\ cpc = "idle" /\ scanres \in {"none", "clean"}
    /\ \/ /\ \E g1 \in GarbageU, g2 \in GarbageU : num_ptr' = <<g1, g2>>
          /\ cpc' = "memset"
          /\ UNCHANGED cret
       \/ Throw /\ UNCHANGED num_ptr
    /\ UNCHANGED <<rvars, tensor, scanres, nan_inf_num, stream, kernel, tpc,
                   block_nan, block_inf, has_nan_inf, issued>>

\* lines 230-231: cudaMemsetAsync
CountMemset ==
    /\ cpc = "memset"
    /\ \/ /\ stream' = Append(stream, "memset")
          /\ issued' = Append(issued, "memset")
          /\ cpc' = "launch"
          /\ UNCHANGED cret
       \/ Throw /\ UNCHANGED <<stream, issued>>
    /\ UNCHANGED <<rvars, tensor, scanres, num_ptr, nan_inf_num, kernel, tpc,
                   block_nan, block_inf, has_nan_inf>>

\* Faulty variant of HasCountKernel: the final else of line 246 never taken.
HasCountKernelAny(type) == type \in VarTypes

\* lines 237, 240, 243: the element types with a kernel
HasCountKernel(type) == type \in CountTypes

\* lines 237-248: launch the kernel of the element type, or return false
CountLaunch ==
    /\ cpc = "launch"
    /\ IF HasCountKernel(tensor.type)
       THEN /\ stream' = Append(stream, "count")
            /\ issued' = Append(issued, "count")
            /\ cpc' = "d2h"
            /\ UNCHANGED cret
       ELSE /\ cpc' = "done"
            /\ cret' = "false"
            /\ UNCHANGED <<stream, issued>>
    /\ UNCHANGED <<rvars, tensor, scanres, num_ptr, nan_inf_num, kernel, tpc,
                   block_nan, block_inf, has_nan_inf>>

\* lines 250-253: cudaMemcpyAsync device to host
CountCopyBack ==
    /\ cpc = "d2h"
    /\ \/ /\ stream' = Append(stream, "d2h")
          /\ issued' = Append(issued, "d2h")
          /\ cpc' = "sync"
          /\ UNCHANGED cret
       \/ Throw /\ UNCHANGED <<stream, issued>>
    /\ UNCHANGED <<rvars, tensor, scanres, num_ptr, nan_inf_num, kernel, tpc,
                   block_nan, block_inf, has_nan_inf>>

\* Faulty variant of StreamDrained: the synchronization returns at once.
StreamDrainedNoWait == stream \in Seq({"memset", "count", "d2h", "scan"})

\* line 254: every operation enqueued on the stream has completed
StreamDrained == stream = << >> /\ kernel = "none"

\* line 254: cudaStreamSynchronize returns when the stream has drained
CountSync ==
    /\ cpc = "sync"
    /\ StreamDrained
    /\ issued' = Append(issued, "sync")
    /\ \/ cpc' = "verdict" /\ UNCHANGED cret
       \/ Throw
    /\ UNCHANGED <<rvars, tensor, scanres, num_ptr, nan_inf_num, stream, kernel, tpc,
                   block_nan, block_inf, has_nan_inf>>

\* lines 255-261
CountVerdict ==
    /\ cpc = "verdict"
    /\ cret' = IF nan_inf_num[1] > 0 \/ nan_inf_num[2] > 0 THEN "true" ELSE "false"
    /\ cpc' = "done"
    /\ UNCHANGED <<rvars, tensor, scanres, num_ptr, nan_inf_num, stream, kernel, tpc,
                   block_nan, block_inf, has_nan_inf, issued>>

\* No check has been called yet.
KernelIdle ==
    /\ scanres = "none"
    /\ cpc = "idle"
    /\ cret = "none"
    /\ num_ptr = <<0, 0>>
    /\ nan_inf_num = <<0, 0>>
    /\ stream = << >>
    /\ kernel = "none"
    /\ tpc = [t \in Tids |-> "off"]
    /\ block_nan = [b \in BlockIds |-> 0]
    /\ block_inf = [b \in BlockIds |-> 0]
    /\ has_nan_inf = [b \in BlockIds |-> FALSE]
    /\ issued = << >>
    /\ nan_count = [b \in BlockIds |-> 0]
    /\ inf_count = [b \in BlockIds |-> 0]
    /\ num_count = [b \in BlockIds |-> 0]
    /\ idx = [t \in Tids |-> 0]
    /\ printed = [b \in BlockIds |-> {}]
    /\ tally = [b \in BlockIds |-> << >>]

(***************************************************************************)
(* The host side of tensor_check, lines 27-55 and 117-185.                 *)
(* A label "[op=...] [tensor=...]" is one of Labels; a call names a device *)
(* index, in range or not.                                                 *)
(***************************************************************************)
HostThreads == 1 .. NumThreads
Labels == 1 .. NumLabels
DevIds == -1 .. MaxDevices
Devices == 0 .. MaxDevices - 1

EmptyMap == << >>

Outcome(kind, bound) == [kind |-> kind, bound |-> bound]

\* Faulty variant of CallOnceDecision: a caller that finds the initialisation running
\* goes on without waiting for it.
CallOnceNoWait(f) == IF f = "idle" THEN "run" ELSE "pass"

\* std::call_once, line 180: what a caller does on finding the flag in state f
CallOnceDecision(f) ==
    IF f = "done" THEN "pass" ELSE IF f = "idle" THEN "run" ELSE "wait"

\* Faulty variant of InRange: an off-by-one upper bound.
InRangeInclusive(d, size) == d >= 0 /\ d <= size

\* line 127: dev_id >= 0 && dev_id < multi_op_var2gpu_str_mutex().size()
InRange(d, size) == d >= 0 /\ d < size

\* Faulty variant of CacheIndex: one map for all devices.
CacheIndexShared(d) == 1

\* line 136: multi_op_var2gpu_str().at(dev_id), as an index of the table
CacheIndex(d) == d + 1

\* Faulty variant of MutexFree: the lock never blocks.
MutexFreeAlways(d) == d \in DevIds

\* line 138: the lock_guard can take the device's mutex
MutexFree(d) == multi_op_var2gpu_str_mutex[d + 1] = 0

\* The call of thread t is over: its arguments and locals are gone.
CallOver(t) ==
    /\ hpc' = [hpc EXCEPT ![t] = "idle"]
    /\ dev_id' = [dev_id EXCEPT ![t] = 0]
    /\ op_var' = [op_var EXCEPT ![t] = 1]
    /\ gpu_str_ptr' = [gpu_str_ptr EXCEPT ![t] = 0]

CallGoesOn == UNCHANGED <<dev_id, op_var, gpu_str_ptr>>

LogEvent(d, l, e) == [log EXCEPT ![d][l] = Append(@, e)]

\* Faulty variant of Unlocked: the mutex stays locked when the scope is left.
UnlockedNever(d) == [multi_op_var2gpu_str_mutex EXCEPT ![d + 1] = @]

\* the lock_guard of line 138 goes out of scope
Unlocked(d) == [multi_op_var2gpu_str_mutex EXCEPT ![d + 1] = 0]

\* Host threads are interchangeable: of the threads that have not called
\* yet, the lowest calls first.
MayCall(t) == IF t = 1 THEN TRUE ELSE result[t - 1].kind # "none"

\* Labels are interchangeable: the k-th call names one of the first k labels.
MayName(l) == l <= ncalls + 1

\* So are the devices of the machine: the k-th call names one of the first k
\* devices, or an index below or above all of them.
MayTarget(d) == d \in {-1, MaxDevices} \/ d <= ncalls

\* lines 176-180: a thread calls tensor_check for label l on device d
TensorCheck(t, d, l) ==
    /\ hpc[t] = "idle" /\ ncalls < MaxCalls
    /\ MayCall(t) /\ MayName(l) /\ MayTarget(d)
    /\ ncalls' = ncalls + 1
    /\ dev_id' = [dev_id EXCEPT ![t] = d]
    /\ op_var' = [op_var EXCEPT ![t] = l]
    /\ gpu_str_ptr' = [gpu_str_ptr EXCEPT ![t] = 0]
    /\ result' = [result EXCEPT ![t] = Outcome("running", 0)]
    /\ hpc' = [hpc EXCEPT ![t] = "call_once"]
    /\ UNCHANGED <<dev_count, flag, multi_op_var2gpu_str,
                   multi_op_var2gpu_str_mutex, dstream, next_alloc,
                   init_runs, init_done, log>>

\* line 180: std::call_once(init_multi_gpu_op_var_map_flag, ...)
CallOnce(t) ==
    /\ hpc[t] = "call_once"
    /\ CallOnceDecision(flag) # "wait"
    /\ IF CallOnceDecision(flag) = "run"
       THEN /\ flag' = "running"
            /\ hpc' = [hpc EXCEPT ![t] = "init"]
       ELSE /\ hpc' = [hpc EXCEPT ![t] = "apply"]
            /\ UNCHANGED flag
    /\ UNCHANGED <<dev_count, multi_op_var2gpu_str, multi_op_var2gpu_str_mutex,
                   dev_id, op_var, gpu_str_ptr, result, dstream, next_alloc,
                   ncalls, init_runs, init_done, log>>

\* lines 43-51: InitMultiGPUOpVarMap up to the swaps.  PADDLE_ENFORCE_GT
\* throws out of call_once, which leaves the flag unset.
InitEnforce(t) ==
    /\ hpc[t] = "init"
    /\ init_runs' = init_runs + 1
    /\ IF dev_count > 0
       THEN /\ hpc' = [hpc EXCEPT ![t] = "swap"]
            /\ CallGoesOn
            /\ UNCHANGED <<flag, result>>
       ELSE /\ flag' = "idle"
            /\ result' = [result EXCEPT ![t] = Outcome("NotFound", dev_count)]
            /\ CallOver(t)
    /\ UNCHANGED <<dev_count, multi_op_var2gpu_str, multi_op_var2gpu_str_mutex,
                   dstream, next_alloc, ncalls, init_done, log>>

\* line 53: multi_op_var2gpu_str().swap(tmp_multi)
InitSwapMap(t) ==
    /\ hpc[t] = "swap"
    /\ multi_op_var2gpu_str' = [i \in 1 .. dev_count |-> EmptyMap]
    /\ hpc' = [hpc EXCEPT ![t] = "swap_mutex"]
    /\ UNCHANGED <<dev_count, flag, multi_op_var2gpu_str_mutex, dev_id, op_var,
                   gpu_str_ptr, result, dstream, next_alloc, ncalls,
                   init_runs, init_done, log>>

\* lines 54-55: multi_op_var2gpu_str_mutex().swap(tmp_multi_mutex) and the
\* return, on which call_once sets the flag
InitSwapMutex(t) ==
    /\ hpc[t] = "swap_mutex"
    /\ multi_op_var2gpu_str_mutex' = [i \in 1 .. dev_count |-> 0]
    /\ flag' = "done"
    /\ init_done' = init_done + 1
    /\ hpc' = [hpc EXCEPT ![t] = "apply"]
    /\ UNCHANGED <<dev_count, multi_op_var2gpu_str, dev_id, op_var,
                   gpu_str_ptr, result, dstream, next_alloc, ncalls,
                   init_runs, log>>

\* lines 123-129: the range check of the device index
ApplyEnforce(t) ==
    /\ hpc[t] = "apply"
    /\ IF InRange(dev_id[t], Len(multi_op_var2gpu_str_mutex))
       THEN /\ hpc' = [hpc EXCEPT ![t] = "lock"]
            /\ CallGoesOn
            /\ UNCHANGED result
       ELSE /\ CallOver(t)
            /\ result' = [result EXCEPT ![t] =
                  Outcome("OutOfRange", Len(multi_op_var2gpu_str_mutex))]
    /\ UNCHANGED <<dev_count, flag, multi_op_var2gpu_str,
                   multi_op_var2gpu_str_mutex, dstream, next_alloc, ncalls,
                   init_runs, init_done, log>>

\* lines 135-136: both .at(dev_id) find an element
AtOk(d) ==
    /\ d + 1 \in DOMAIN multi_op_var2gpu_str_mutex
    /\ CacheIndex(d) \in DOMAIN multi_op_var2gpu_str

\* lines 135-139: .at(dev_id) on both tables (std::out_of_range when there is
\* no such element), the lock_guard, and the find that picks the branch
LockFind(t) ==
    /\ hpc[t] = "lock"
    /\ LET d == dev_id[t]
           l == op_var[t]
       IN IF ~AtOk(d)
          THEN /\ CallOver(t)
               /\ result' = [result EXCEPT ![t] = Outcome("std::out_of_range", 0)]
               /\ UNCHANGED <<multi_op_var2gpu_str_mutex, log>>
          ELSE /\ MutexFree(d)
               /\ multi_op_var2gpu_str_mutex' =
                     [multi_op_var2gpu_str_mutex EXCEPT ![d + 1] = t]
               /\ IF l \notin DOMAIN multi_op_var2gpu_str[CacheIndex(d)]
                  THEN /\ hpc' = [hpc EXCEPT ![t] = "insert"]
                       /\ log' = LogEvent(d, l, "insert")
                  ELSE /\ hpc' = [hpc EXCEPT ![t] = "get"]
                       /\ log' = LogEvent(d, l, "get")
               /\ CallGoesOn
               /\ UNCHANGED result
    /\ UNCHANGED <<dev_count, flag, multi_op_var2gpu_str, dstream,
                   next_alloc, ncalls, init_runs, init_done>>

\* lines 140-151: memory::Alloc and emplace; Alloc may throw, and the
\* lock_guard then unlocks
Insert(t) ==
    /\ hpc[t] = "insert"
    /\ LET d == dev_id[t]
           l == op_var[t]
       IN \/ /\ gpu_str_ptr' = [gpu_str_ptr EXCEPT ![t] = next_alloc]
             /\ next_alloc' = next_alloc + 1
             /\ multi_op_var2gpu_str' =
                   [multi_op_var2gpu_str EXCEPT
                       ![CacheIndex(d)] = @ @@ (l :> next_alloc)]
             /\ log' = LogEvent(d, l, "emplace")
             /\ hpc' = [hpc EXCEPT ![t] = "memcpy"]
             /\ UNCHANGED <<multi_op_var2gpu_str_mutex, result, dev_id, op_var>>
          \/ /\ multi_op_var2gpu_str_mutex' = Unlocked(d)
             /\ result' = [result EXCEPT ![t] = Outcome("AllocFailed", 0)]
             /\ CallOver(t)
             /\ UNCHANGED <<next_alloc, multi_op_var2gpu_str, log>>
    /\ UNCHANGED <<dev_count, flag, dstream, ncalls, init_runs, init_done>>

\* lines 153-155 and 165: cudaMemcpyAsync of the label on the device's stream,
\* then the lock_guard unlocks; PADDLE_ENFORCE_CUDA_SUCCESS throws when the
\* copy could not be issued
Memcpy(t) ==
    /\ hpc[t] = "memcpy"
    /\ LET d == dev_id[t]
           l == op_var[t]
       IN /\ multi_op_var2gpu_str_mutex' = Unlocked(d)
          /\ \/ /\ dstream' = [dstream EXCEPT ![d] = Append(@,
                       [op |-> "h2d", ptr |-> gpu_str_ptr[t], label |-> l])]
                /\ hpc' = [hpc EXCEPT ![t] = "launch"]
                /\ CallGoesOn
                /\ UNCHANGED result
             \/ /\ result' = [result EXCEPT ![t] = Outcome("CudaError", 0)]
                /\ CallOver(t)
                /\ UNCHANGED dstream
    /\ UNCHANGED <<dev_count, flag, multi_op_var2gpu_str, next_alloc, ncalls,
                   init_runs, init_done, log>>

\* lines 157-165: the cached pointer, then the lock_guard unlocks
Get(t) ==
    /\ hpc[t] = "get"
    /\ LET d == dev_id[t]
           l == op_var[t]
       IN /\ gpu_str_ptr' = [gpu_str_ptr EXCEPT ![t] =
                multi_op_var2gpu_str[CacheIndex(d)][l]]
          /\ multi_op_var2gpu_str_mutex' = Unlocked(d)
    /\ hpc' = [hpc EXCEPT ![t] = "launch"]
    /\ UNCHANGED <<dev_count, flag, multi_op_var2gpu_str, dev_id, op_var,
                   result, dstream, next_alloc, ncalls, init_runs, init_done,
                   log>>

\* lines 167-172: CheckNanInfKernel is enqueued with gpu_str_ptr as its
\* debug_info (its grid and its run are SpecKernel's), and the call returns
Launch(t) ==
    /\ hpc[t] = "launch"
    /\ dstream' = [dstream EXCEPT ![dev_id[t]] = Append(@,
           [op |-> "kernel", ptr |-> gpu_str_ptr[t], label |-> op_var[t]])]
    /\ result' = [result EXCEPT ![t] = Outcome("ok", 0)]
    /\ CallOver(t)
    /\ UNCHANGED <<dev_count, flag, multi_op_var2gpu_str,
                   multi_op_var2gpu_str_mutex, next_alloc, ncalls, init_runs,
                   init_done, log>>

\* No thread has called tensor_check yet; the tables are the empty statics of
\* lines 30-40.
HostIdle ==
    /\ flag = "idle"
    /\ multi_op_var2gpu_str = << >>
    /\ multi_op_var2gpu_str_mutex = << >>
    /\ hpc = [t \in HostThreads |-> "idle"]
    /\ dev_id = [t \in HostThreads |-> 0]
    /\ op_var = [t \in HostThreads |-> 1]
    /\ gpu_str_ptr = [t \in HostThreads |-> 0]
    /\ result = [t \in HostThreads |-> Outcome("none", 0)]
    /\ dstream = [d \in Devices |-> << >>]
    /\ next_alloc = 1
    /\ ncalls = 0
    /\ init_runs = 0
    /\ init_done = 0
    /\ log = [d \in Devices |-> [l \in Labels |-> << >>]]

(***************************************************************************)
(* The two specifications.                                                 *)
(***************************************************************************)
InitKernel == tensor \in Tensors /\ KernelIdle /\ dev_count = 1 /\ HostIdle
NextKernel ==
    \/ ScanLaunch /\ UNCHANGED hvars
    \/ CountAlloc /\ UNCHANGED hvars
    \/ CountMemset /\ UNCHANGED hvars
    \/ CountLaunch /\ UNCHANGED hvars
    \/ CountCopyBack /\ UNCHANGED hvars
    \/ CountSync /\ UNCHANGED hvars
    \/ CountVerdict /\ UNCHANGED hvars
    \/ DevMemset /\ UNCHANGED hvars
    \/ CountKernelBegin /\ UNCHANGED hvars
    \/ ScanKernelBegin /\ UNCHANGED hvars
    \/ DevCopyBack /\ UNCHANGED hvars
    \/ \E b \in BlockIds : CountInit(b) /\ UNCHANGED hvars
    \/ \E b \in BlockIds : CountSync1(b) /\ UNCHANGED hvars
    \/ \E b \in BlockIds, x \in ThreadIds : CountClassify(b, x) /\ UNCHANGED hvars
    \/ \E b \in BlockIds : CountSync2(b) /\ UNCHANGED hvars
    \/ \E b \in BlockIds, x \in ThreadIds : CountMergeNan(b, x) /\ UNCHANGED hvars
    \/ \E b \in BlockIds, x \in ThreadIds : CountMergeInf(b, x) /\ UNCHANGED hvars
    \/ CountKernelEnd /\ UNCHANGED hvars
    \/ \E b \in BlockIds : ScanInit(b) /\ UNCHANGED hvars
    \/ \E b \in BlockIds : ScanSync1(b) /\ UNCHANGED hvars
    \/ \E b \in BlockIds, x \in ThreadIds : ScanAccumulate(b, x) /\ UNCHANGED hvars
    \/ \E b \in BlockIds : ScanSync2(b) /\ UNCHANGED hvars
    \/ \E b \in BlockIds, x \in ThreadIds : ScanCheck(b, x) /\ UNCHANGED hvars
    \/ \E b \in BlockIds : PrintInit(b) /\ UNCHANGED hvars
    \/ \E b \in BlockIds, x \in ThreadIds : PrintRescan(b, x) /\ UNCHANGED hvars
    \/ \E b \in BlockIds : PrintTally(b) /\ UNCHANGED hvars
    \/ ScanKernelEnd /\ UNCHANGED hvars
SpecKernel == InitKernel /\ [][NextKernel]_vars

InitHost ==
    /\ tensor = [type |-> "FP32", data |-> << >>] /\ KernelIdle
    /\ dev_count \in {0, MaxDevices} /\ HostIdle
NextHost ==
    \/ \E t \in HostThreads, d \in DevIds, l \in Labels : TensorCheck(t, d, l) /\ UNCHANGED kvars
    \/ \E t \in HostThreads : CallOnce(t) /\ UNCHANGED kvars
    \/ \E t \in HostThreads : InitEnforce(t) /\ UNCHANGED kvars
    \/ \E t \in HostThreads : InitSwapMap(t) /\ UNCHANGED kvars
    \/ \E t \in HostThreads : InitSwapMutex(t) /\ UNCHANGED kvars
    \/ \E t \in HostThreads : ApplyEnforce(t) /\ UNCHANGED kvars
    \/ \E t \in HostThreads : LockFind(t) /\ UNCHANGED kvars
    \/ \E t \in HostThreads : Insert(t) /\ UNCHANGED kvars
    \/ \E t \in HostThreads : Memcpy(t) /\ UNCHANGED kvars
    \/ \E t \in HostThreads : Get(t) /\ UNCHANGED kvars
    \/ \E t \in HostThreads : Launch(t) /\ UNCHANGED kvars
SpecHost == InitHost /\ [][NextHost]_vars

\* A host thread inside tensor_check that can take its next step takes it:
\* the operating system schedules every runnable thread.
Proceed(t) ==
    /\ \/ CallOnce(t) \/ InitEnforce(t) \/ InitSwapMap(t) \/ InitSwapMutex(t)
       \/ ApplyEnforce(t) \/ LockFind(t) \/ Insert(t) \/ Memcpy(t) \/ Get(t)
       \/ Launch(t)
    /\ UNCHANGED kvars
SpecHostFair == SpecHost /\ \A t \in HostThreads : WF_vars(Proceed(t))

(***************************************************************************)
(* Properties of the kernels (SpecKernel).                                 *)
(***************************************************************************)
NanCount == Cardinality({i \in 1 .. numel : isnan(tensor.data[i])})
InfCount == Cardinality({i \in 1 .. numel : isinf(tensor.data[i])})
AllFinite == NanCount = 0 /\ InfCount = 0

Issued(op) == \E i \in DOMAIN issued : issued[i] = op
Pending(op) == \E i \in DOMAIN stream : stream[i] = op

\* The count check returned normally.
CountReturned == cpc = "done" /\ cret \in {"true", "false"}

\* C1, as claimed: for every buffer of a supported type, whatever its length,
\* the count check ends with nan_count = number of NaN elements and
\* inf_count = number of infinite elements.
C1_CountsExact ==
    (CountReturned /\ tensor.type \in CountTypes)
        => nan_inf_num = <<NanCount, InfCount>>

\* C2: on a buffer whose elements are all finite (any length, 0 included) no
\* block of the scan kernel enters the report path, and the count check ends
\* with both counters 0 and returns false.
C2_FiniteIsClean ==
    AllFinite =>
        /\ \A b \in BlockIds : ~Reporting(b)
        /\ scanres # "reported"
        /\ cpc \in {"verdict", "done"} => nan_inf_num = <<0, 0>>
        /\ cpc = "done" => cret \in {"false", "throw"}
        /\ (Issued("count") /\ kernel # "count" /\ ~Pending("count")) => num_ptr = <<0, 0>>

C2_Witness ==
    /\ AllFinite /\ numel > threads
    /\ scanres = "clean"
    /\ CountReturned /\ cret = "false" /\ Issued("sync")

\* C3: the scan kernel reaches the report path in at least one block if and
\* only if the buffer holds a NaN or an infinite element, whether it holds one
\* kind or both.
C3_ScanDetects ==
    /\ (\E b \in BlockIds : Reporting(b)) => ~AllFinite
    /\ scanres = "reported" => ~AllFinite
    /\ scanres = "clean" => AllFinite

\* a buffer mixing NaN and infinity, one of them beyond the first stride,
\* detected
C3_Witness ==
    /\ scanres = "reported"
    /\ NanCount > 0 /\ InfCount > 0
    /\ \E i \in 0 .. numel - 1 : i >= ScanStride /\ value(i).k # "fin"

\* The count kernel is running or has run.
CountRunOrAfter == Issued("count") /\ (kernel = "count" \/ ~Pending("count"))

\* C9: at every point during and after a count-kernel run,
\* nan_count + inf_count <= element count.
C9_SumBounded ==
    /\ CountRunOrAfter => num_ptr[1] + num_ptr[2] <= numel
    /\ nan_inf_num[1] + nan_inf_num[2] <= numel

\* both counters nonzero while a block has still to merge
C9_Witness ==
    /\ kernel = "count"
    /\ num_ptr[1] > 0 /\ num_ptr[2] > 0
    /\ \E b \in BlockIds : tpc[<<b, 0>>] \in {"classify", "sync2", "merge_nan"}

\* C10, as claimed: for an element type other than FP32, FP64, INT64 the count
\* check launches no kernel, copies nothing back, does not synchronize,
\* raises no error and returns false.
C10_NotApplicableNoError ==
    tensor.type \notin CountTypes =>
        /\ ~Issued("count") /\ ~Issued("d2h") /\ ~Issued("sync")
        /\ cret # "throw"
        /\ cpc = "done" => cret = "false"

\* C10, amended: for such a type the count check launches no kernel, copies
\* nothing back and does not synchronize; the scratch allocation and the
\* zero-fill of lines 228-231 come before the type test, and once they have
\* succeeded the call returns false without raising.
C10_NotApplicable ==
    tensor.type \notin CountTypes =>
        /\ ~Issued("count") /\ ~Issued("d2h") /\ ~Issued("sync")
        /\ kernel # "count"
        /\ (cpc = "done" /\ Issued("memset")) => cret = "false"
        /\ cpc = "done" => cret \in {"false", "throw"}

C10_Witness ==
    /\ tensor.type \notin CountTypes
    /\ NanCount > 0
    /\ cpc = "done" /\ cret = "false" /\ issued = <<"memset">>

(***************************************************************************)
(* Properties of the host side (SpecHost).                                 *)
(***************************************************************************)
Count(seq, e) == Cardinality({i \in DOMAIN seq : seq[i] = e})

\* The host-to-device copies of label l issued on device d's stream.
Uploads(d, l) ==
    Cardinality({i \in DOMAIN dstream[d] :
                    dstream[d][i].op = "h2d" /\ dstream[d][i].label = l})

\* Device d's map holds label l.
Cached(d, l) ==
    /\ d + 1 \in DOMAIN multi_op_var2gpu_str
    /\ l \in DOMAIN multi_op_var2gpu_str[d + 1]

\* The positions of a thread inside TensorCheckerVisitor::apply.
ApplyPcs == {"apply", "lock", "insert", "memcpy", "get", "launch"}

\* C4, as claimed: a label is allocated and uploaded at most once per device;
\* the first call for a (device, label) pair takes the insert branch and every
\* later or concurrent call for the pair takes the get branch.
C4_FirstInsertsRestGet ==
    \A d \in Devices, l \in Labels :
        /\ Uploads(d, l) <= 1
        /\ Count(log[d][l], "emplace") <= 1
        /\ \A i \in DOMAIN log[d][l] : log[d][l][i] = "insert" => i = 1

\* C4, amended: a label is allocated and uploaded at most once per device;
\* once a call has put the entry into the device's map, every later or
\* concurrent call for the pair takes the get branch, and no call takes the
\* get branch before that.  (A call whose memory::Alloc throws leaves no
\* entry, and the next call takes the insert branch again.)
C4_UploadedOnce ==
    \A d \in Devices, l \in Labels :
        /\ Uploads(d, l) <= 1
        /\ Count(log[d][l], "emplace") <= 1
        /\ \A i, j \in DOMAIN log[d][l] :
              (i < j /\ log[d][l][i] = "emplace") => log[d][l][j] = "get"
        /\ \A j \in DOMAIN log[d][l] :
              log[d][l][j] = "get" =>
                  \E i \in DOMAIN log[d][l] : i < j /\ log[d][l][i] = "emplace"

\* two calls for one pair: one upload, the second call gets, both kernels
\* are handed the same buffer
C4_Witness ==
    \E d \in Devices, l \in Labels :
        /\ log[d][l] = <<"insert", "emplace", "get">>
        /\ Uploads(d, l) = 1
        /\ Cardinality({i \in DOMAIN dstream[d] : dstream[d][i].op = "kernel"}) = 2

\* C5: cache entries are per device.  An insert on device d changes device
\* d's map only (a map holds a label exactly when an insert on its own device
\* put it there), the first lookup of a label on a device takes the insert
\* branch whatever the other devices hold, and each device uploads its own
\* copy.
C5_PerDevice ==
    \A d \in Devices, l \in Labels :
        /\ log[d][l] # << >> => log[d][l][1] = "insert"
        /\ flag = "done" => (Cached(d, l) <=> Count(log[d][l], "emplace") > 0)
        /\ Uploads(d, l) <= Count(log[d][l], "emplace")
        /\ \A e \in Devices :
              (e # d /\ Cached(d, l) /\ Cached(e, l)) =>
                  multi_op_var2gpu_str[d + 1][l] # multi_op_var2gpu_str[e + 1][l]

\* one label inserted and uploaded on two devices
C5_Witness ==
    \E l \in Labels, d, e \in Devices :
        /\ d # e
        /\ log[d][l] = <<"insert", "emplace">> /\ log[e][l] = <<"insert", "emplace">>
        /\ Uploads(d, l) = 1 /\ Uploads(e, l) = 1

\* C6: a call whose device index is outside [0, device_count) fails at the
\* range check with an out-of-range error carrying device_count, and that
\* step takes no lock, creates no cache entry, issues no copy and launches no
\* kernel; such a call never gets past the range check.
C6_OutOfRangeFails ==
    /\ [](\A t \in HostThreads :
            hpc[t] \in (ApplyPcs \ {"apply"}) =>
                (dev_id[t] >= 0 /\ dev_id[t] < dev_count))
    /\ [][\A t \in HostThreads :
            (hpc[t] = "apply" /\ hpc'[t] # "apply"
                /\ ~(dev_id[t] >= 0 /\ dev_id[t] < dev_count))
            => /\ hpc'[t] = "idle"
               /\ result'[t] = Outcome("OutOfRange", dev_count)
               /\ UNCHANGED <<multi_op_var2gpu_str, multi_op_var2gpu_str_mutex,
                              dstream, next_alloc, log>>]_vars

\* a call refused with the bound, every cache still empty
C6_Witness ==
    /\ dev_count = MaxDevices
    /\ \E t \in HostThreads : result[t] = Outcome("OutOfRange", MaxDevices)
    /\ \A d \in Devices, l \in Labels : ~Cached(d, l) /\ dstream[d] = << >>

\* C7: InitMultiGPUOpVarMap's construction completes at most once, a thread
\* is inside apply (where the tables are read) only after it has completed,
\* and from then on both tables have exactly device_count entries.
C7_InitOnce ==
    /\ init_done <= 1
    /\ flag = "done" =>
          /\ init_done = 1
          /\ Len(multi_op_var2gpu_str) = dev_count
          /\ Len(multi_op_var2gpu_str_mutex) = dev_count
    /\ \A t \in HostThreads : hpc[t] \in ApplyPcs => flag = "done"

\* every thread, each in its first call, is past the gate
C7_Witness ==
    /\ init_done = 1 /\ ncalls = NumThreads
    /\ \A t \in HostThreads : hpc[t] \in ApplyPcs

\* C8, as claimed: with no device visible the initialisation fails and is
\* never run again.
C8_InitNeverRetried == dev_count <= 0 => init_runs <= 1

\* The scan kernels enqueued on device d's stream for label l.
KernelsOf(d, l) ==
    {i \in DOMAIN dstream[d] : dstream[d][i].op = "kernel" /\ dstream[d][i].label = l}

\* C11: a label inserted into a device's cache is never removed or replaced
\* (the cached labels of a device only grow and a cached pointer never
\* changes), and every scan check for the label on that device launches its
\* kernel with the device buffer pointer the insert produced.
C11_NeverEvicted ==
    /\ [][\A d \in Devices, l \in Labels :
            Cached(d, l) =>
                /\ Cached(d, l)'
                /\ multi_op_var2gpu_str'[d + 1][l] = multi_op_var2gpu_str[d + 1][l]]_vars
    /\ [](\A d \in Devices, l \in Labels :
            /\ \A i \in KernelsOf(d, l) :
                  /\ Cached(d, l)
                  /\ dstream[d][i].ptr = multi_op_var2gpu_str[d + 1][l]
            /\ \A t \in HostThreads :
                  (hpc[t] = "launch" /\ dev_id[t] = d /\ op_var[t] = l) =>
                      /\ Cached(d, l)
                      /\ gpu_str_ptr[t] = multi_op_var2gpu_str[d + 1][l])

\* the inserting call and a later call for the pair have both launched, each
\* with the pointer the cache still holds
C11_Witness ==
    \E d \in Devices, l \in Labels :
        /\ Cached(d, l)
        /\ Count(log[d][l], "get") = 1
        /\ Cardinality(KernelsOf(d, l)) = 2
        /\ \A i \in KernelsOf(d, l) : dstream[d][i].ptr = multi_op_var2gpu_str[d + 1][l]

(***************************************************************************)
(* More properties of the count kernel (SpecKernel).                       *)
(***************************************************************************)
\* The positions of a count-kernel thread after its `if (i < len)` body.
CountClassified == {"sync2", "merge_nan", "merge_inf", "done"}

\* The threads of the grid that have inspected val[i].
InspectedBy(i) ==
    {t \in Tids : /\ Active(t[1])
                  /\ tpc[t] \in CountClassified
                  /\ CountIndex(t[1], t[2]) = i}

\* Every thread of the count kernel's grid has run to its end.
CountGridDone == kernel = "count" /\ \A t \in Tids : tpc[t] \in {"off", "done"}

\* C12, as claimed: in the count kernel as CudaTensorCheckNanInf launches it,
\* every element index in [0, len) is inspected by exactly one thread, for
\* every buffer length.
C12_EveryIndexInspected ==
    CountGridDone => \A i \in 0 .. numel - 1 : Cardinality(InspectedBy(i)) = 1

\* The NaN (kind "nan") or infinite (kind "inf") elements among those the
\* threads xs of block b look at.
SeenBy(b, xs, kind) ==
    Cardinality({x \in xs : /\ CountIndex(b, x) < numel
                            /\ value(CountIndex(b, x)).k = kind})

\* The threads of block b that are through their classification.
ClassifiedIn(b) == {x \in ThreadIds : tpc[<<b, x>>] \in CountClassified}

\* The sum of part[b] over the blocks 0 .. n - 1.
RECURSIVE SumBlocks(_, _)
SumBlocks(part, n) == IF n = 0 THEN 0 ELSE part[n - 1] + SumBlocks(part, n - 1)

\* What the blocks whose thread 0 is at one of the positions pcs add to a
\* global counter.
MergedAt(pcs, kind) ==
    SumBlocks([b \in BlockIds |-> IF Active(b) /\ tpc[<<b, 0>>] \in pcs
                                  THEN SeenBy(b, ThreadIds, kind) ELSE 0],
              MaxBlocks)

\* C13: in the count kernel, under every interleaving, no increment is lost.
\* A block's shared counters are zeroed before any of its threads increments
\* them and then hold exactly the elements classified so far; a block merges
\* only after all its threads have classified, through one thread, once; so
\* the global counters always hold exactly the partial counts of the blocks
\* that have merged, and at the end the sum over all blocks.
C13_NoLostIncrement ==
    kernel = "count" =>
        /\ \A b \in BlockIds :
              Active(b) =>
                  /\ tpc[<<b, 0>>] = "init" => ClassifiedIn(b) = {}
                  /\ tpc[<<b, 0>>] # "init" =>
                        /\ block_nan[b] = SeenBy(b, ClassifiedIn(b), "nan")
                        /\ block_inf[b] = SeenBy(b, ClassifiedIn(b), "inf")
                  /\ (\E x \in ThreadIds : tpc[<<b, x>>] \in {"merge_nan", "merge_inf", "done"})
                        => ClassifiedIn(b) = ThreadIds
                  /\ \A x \in ThreadIds :
                        tpc[<<b, x>>] \in {"merge_nan", "merge_inf"} => x = 0
        /\ num_ptr[1] = MergedAt({"merge_inf", "done"}, "nan")
        /\ num_ptr[2] = MergedAt({"done"}, "inf")
        /\ CountGridDone =>
              /\ num_ptr[1] = SumBlocks([b \in BlockIds |->
                                  IF Active(b) THEN SeenBy(b, ThreadIds, "nan") ELSE 0], MaxBlocks)
              /\ num_ptr[2] = SumBlocks([b \in BlockIds |->
                                  IF Active(b) THEN SeenBy(b, ThreadIds, "inf") ELSE 0], MaxBlocks)

\* one block has merged its NaN count while another, which holds an infinite
\* element already counted, still has a thread classifying
C13_Witness ==
    /\ kernel = "count"
    /\ \E b, c \in BlockIds :
          /\ b # c
          /\ tpc[<<b, 0>>] = "done" /\ SeenBy(b, ThreadIds, "nan") > 0
          /\ block_inf[c] > 0
          /\ \E x \in ThreadIds : tpc[<<c, x>>] = "classify"

\* What the count kernel's grid leaves in a global counter once every block
\* has merged.
FinalCount(kind) ==
    SumBlocks([b \in BlockIds |-> IF Active(b) THEN SeenBy(b, ThreadIds, kind) ELSE 0],
              MaxBlocks)

IsPrefix(s, t) == Len(s) <= Len(t) /\ \A i \in DOMAIN s : s[i] = t[i]

\* C14: the count check enqueues zero-fill, kernel, device-to-host copy in
\* that order and then synchronizes; the device runs the kernel on zeroed
\* counters and copies back only after the kernel; the host takes its verdict
\* only after the synchronization, on the counters as every block's merge has
\* left them.
C14_StreamOrder ==
    /\ IsPrefix(issued, <<"memset", "count", "d2h", "sync">>)
    /\ IsPrefix(stream, <<"memset", "count", "d2h">>)
          \/ IsPrefix(stream, <<"count", "d2h">>)
          \/ IsPrefix(stream, <<"d2h">>)
          \/ stream = <<"scan">>
    /\ (kernel = "count" /\ \A t \in Tids : tpc[t] \in {"off", "init", "sync1"})
          => num_ptr = <<0, 0>>
    /\ (Issued("d2h") /\ ~Pending("d2h"))
          => nan_inf_num = <<FinalCount("nan"), FinalCount("inf")>>
    /\ (cpc = "verdict" \/ (CountReturned /\ tensor.type \in CountTypes)) =>
          /\ Issued("sync") /\ stream = << >> /\ kernel = "none"
          /\ nan_inf_num = num_ptr
          /\ nan_inf_num = <<FinalCount("nan"), FinalCount("inf")>>

\* the host returned true on counters two blocks merged into
C14_Witness ==
    /\ CountReturned /\ cret = "true"
    /\ issued = <<"memset", "count", "d2h", "sync">>
    /\ \E b, c \in BlockIds :
          b # c /\ SeenBy(b, ThreadIds, "nan") > 0 /\ SeenBy(c, ThreadIds, "inf") > 0
    /\ nan_inf_num[1] > 0 /\ nan_inf_num[2] > 0

(***************************************************************************)
(* More properties of the host side (SpecHost, SpecHostFair).              *)
(***************************************************************************)
\* Thread t is inside the lock_guard scope of lines 138-165 on device d.
InCriticalSection(t, d) == hpc[t] \in {"insert", "memcpy", "get"} /\ dev_id[t] = d

\* C15: at most one host thread at a time is inside the lookup-or-insert
\* critical section of a device; a thread waits for the lock of its own device
\* only; the lock is held exactly while its holder is inside the section, so
\* it is released on every exit, normal or by an error, before the kernel is
\* launched; and a thread waiting for a device's lock gets past it.
C15_LockDiscipline ==
    /\ [](\A d \in Devices :
            /\ Cardinality({t \in HostThreads : InCriticalSection(t, d)}) <= 1
            /\ d + 1 \in DOMAIN multi_op_var2gpu_str_mutex =>
                  \A t \in HostThreads :
                      multi_op_var2gpu_str_mutex[d + 1] = t <=> InCriticalSection(t, d))
    /\ [](\A t \in HostThreads :
            (/\ hpc[t] = "lock"
             /\ dev_id[t] + 1 \in DOMAIN multi_op_var2gpu_str_mutex
             /\ multi_op_var2gpu_str_mutex[dev_id[t] + 1] = 0)
                => ENABLED (LockFind(t) /\ UNCHANGED kvars))
    /\ \A t \in HostThreads : (hpc[t] = "lock") ~> (hpc[t] # "lock")

\* one thread holds device 0's lock in the insert branch while another holds
\* device 1's
C15_Witness ==
    \E t, u \in HostThreads :
        /\ InCriticalSection(t, 0) /\ hpc[t] = "memcpy"
        /\ InCriticalSection(u, 1)
        /\ multi_op_var2gpu_str_mutex[1] = t /\ multi_op_var2gpu_str_mutex[2] = u

\* The host-to-device copy of label l into buffer p was enqueued on device
\* d's stream before position i.
UploadedBefore(d, i, p, l) ==
    \E j \in DOMAIN dstream[d] :
        /\ j < i
        /\ dstream[d][j] = [op |-> "h2d", ptr |-> p, label |-> l]

\* C16, as claimed: for every scan kernel launch, by any host thread, the
\* host-to-device copy that fills the label buffer passed to the kernel was
\* enqueued on the same device stream before the launch, also when another
\* thread inserted the label.
C16_UploadBeforeLaunch ==
    \A d \in Devices : \A i \in DOMAIN dstream[d] :
        dstream[d][i].op = "kernel" =>
            UploadedBefore(d, i, dstream[d][i].ptr, dstream[d][i].label)

\* C20, as claimed: every cache entry a later lookup can observe (present
\* while the device's lock is free) has had its host-to-device copy issued;
\* a failed copy leaves no entry for the label.
C20_NoUnfilledEntry ==
    \A d \in Devices, l \in Labels :
        (Cached(d, l) /\ multi_op_var2gpu_str_mutex[d + 1] = 0) =>
            UploadedBefore(d, Len(dstream[d]) + 1, multi_op_var2gpu_str[d + 1][l], l)

(***************************************************************************)
(* Properties of the scan kernel and its reporter (SpecKernel).            *)
(***************************************************************************)
\* The flat indices the threads of block b stride over.
AssignedTo(b) ==
    {i \in 0 .. numel - 1 : (i % ScanStride) \div threads = b}

\* One of the elements assigned to block b is NaN or infinite.
BlockHasBad(b) == \E i \in AssignedTo(b) : value(i).k # "fin"

\* C17: the report decision of the scan kernel is taken per block and is
\* uniform inside a block.  A thread is inside the reporter only if an
\* element assigned to its own block is NaN or infinite, and has returned only
\* if none is; so all threads of a block take the same branch, and a block
\* whose elements are all finite returns even when another block reports.
C17_BlockDecision ==
    kernel = "scan" =>
        \A b \in BlockIds :
            /\ (\E x \in ThreadIds : tpc[<<b, x>>] \in ReporterPcs) => BlockHasBad(b)
            /\ (\E x \in ThreadIds : tpc[<<b, x>>] = "returned") => ~BlockHasBad(b)

\* one block has returned, all its threads, while every thread of another is
\* inside the reporter, and only one thread of that block had a bad element
C17_Witness ==
    /\ kernel = "scan"
    /\ \E b, c \in BlockIds :
          /\ b # c
          /\ \A x \in ThreadIds : tpc[<<b, x>>] \in ReporterPcs
          /\ \A x \in ThreadIds : tpc[<<c, x>>] = "returned"
          /\ Cardinality({i \in AssignedTo(b) : value(i).k # "fin"}) = 1

\* The elements of class kind ("nan", "inf", "fin") assigned to block b.
AssignedOf(b, kind) == Cardinality({i \in AssignedTo(b) : value(i).k = kind})

\* C18, as claimed: the tally line a reporting block prints is produced after
\* every thread of the block has finished its re-scan, and its three numbers
\* are the exact counts of the NaN, infinite and clean elements assigned to the
\* block, in every interleaving of the block's threads.
C18_TallyExact ==
    \A b \in BlockIds :
        tally[b] # << >> =>
            /\ kernel = "scan" =>
                  \A x \in ThreadIds : tpc[<<b, x>>] \in {"abort", "rdone"}
            /\ tally[b] = <<AssignedOf(b, "nan"), AssignedOf(b, "inf"),
                            AssignedOf(b, "fin")>>

\* C19, as claimed: a reporting block prints at most print_num element lines,
\* and every element line is for a NaN or infinite element.
C19_OnlyOffendingLines ==
    \A b \in BlockIds :
        /\ Cardinality(printed[b]) <= print_num
        /\ \A i \in printed[b] : value(i).k # "fin"

====
